---- MODULE Spec2Model ----
(***************************************************************************)
(* The invocation / reinvocation control loop of                           *)
(* cloudformation_cli_python_lib.resource.Resource: __call__ under the     *)
(* _ensure_serialize wrapper, _parse_request, _invoke_handler,             *)
(* schedule_reinvocation, and callback.report_progress.                    *)
(***************************************************************************)
EXTENDS Integers, Sequences, FiniteSets, TLC

\* ------------------------------------------------------------------ bounds

\* How many process invocations one logical operation is followed through.
MaxProcess == 2
\* The time budget a process invocation starts with, in milliseconds.
AmpleMs == 900000
\* The invocation counter from which a handler under the hypotheses of progress
\* answers with a terminal event.
MaxInProgress == 3

\* --------------------------------------------------------------- constants

INVOCATION_TIMEOUT_MS == 60000

Actions == {"CREATE", "READ", "UPDATE", "DELETE", "LIST"}
MUTATING_ACTIONS == {"CREATE", "UPDATE", "DELETE"}

\* callbackDelaySeconds values a handler returns (non-negative integers).
Delays == {0, 5, 59, 60, 900}
CallbackContexts == {"empty", "c1", "c2"}

\* needed_ms_remaining of schedule_reinvocation.
NeededMs(d) == d * 1200 + INVOCATION_TIMEOUT_MS

\* The values context.get_remaining_time_in_millis() is observed at: 0, the
\* LOCAL thresholds of the delays 0 and 59 and the millisecond above each, and
\* the budget a process invocation starts with.
TimePoints ==
  {0, AmpleMs} \cup {NeededMs(d) + k : d \in {0, 59}, k \in {0, 1}}

\* ----------------------------------------------------------------- helpers

\* dict.get(key, default) on a mapping modelled as a function.
Get(m, k, default) == IF k \in DOMAIN m THEN m[k] ELSE default

\* m[k] = v on a mapping modelled as a function (in-place item assignment).
Put(m, k, v) == [x \in (DOMAIN m) \cup {k} |-> IF x = k THEN v ELSE m[x]]

EmptyMap == [x \in {} |-> 0]

NoError == [cls |-> "None", code |-> "None"]

\* ProgressEvent.failed(code, message): a FAILED event made by the library.
Failed(code) ==
  [status |-> "FAILED", errorCode |-> code, callbackContext |-> "empty",
   callbackDelaySeconds |-> 0, serializable |-> TRUE]

Unset ==
  [status |-> "Unset", errorCode |-> "None", callbackContext |-> "empty",
   callbackDelaySeconds |-> 0, serializable |-> TRUE]

\* What a registered handler may do when called: return a Progress Event
\* (any combination of fields; serializable says whether json.dumps accepts
\* what the event carries) or raise.
Event(status, errorCode, cb, d, ser) ==
  [status |-> status, errorCode |-> errorCode, callbackContext |-> cb,
   callbackDelaySeconds |-> d, serializable |-> ser]

Statuses == {"IN_PROGRESS", "SUCCESS", "FAILED"}

HandlerReturns ==
  {Event("IN_PROGRESS", "None", "empty", d, TRUE) : d \in Delays}
    \cup {Event("IN_PROGRESS", "None", cb, d, TRUE) : cb \in {"c1", "c2"}, d \in {0, 60}}
    \cup {Event(st, "None", "empty", 0, TRUE) : st \in {"SUCCESS", "FAILED"}}
    \cup {Event(st, "None", "c1", 5, TRUE) : st \in {"SUCCESS", "FAILED"}}
    \cup {Event(st, "NotFound", "empty", 0, TRUE) : st \in Statuses}
    \cup {Event(st, "None", "empty", 0, FALSE) : st \in Statuses}
    \cup {Event("IN_PROGRESS", "None", "c2", 900, FALSE)}

HandlerRaises ==
  {[cls |-> "HandlerError", code |-> "NotFound"],
   [cls |-> "HandlerError", code |-> "InvalidRequest"],
   [cls |-> "Exception", code |-> "None"],
   [cls |-> "BaseException", code |-> "None"]}

HandlerOutcomes ==
  {[raises |-> NoError, event |-> e] : e \in HandlerReturns}
    \cup {[raises |-> x, event |-> Unset] : x \in HandlerRaises}

NoResponse == [status |-> "Unset", errorCode |-> "None", bearerToken |-> "Unset"]

VARIABLES
  payload,      \* event_data of this process invocation
  handlers,     \* Resource._handlers: the actions a handler is registered for
  pc,           \* position inside __call__: start, loop, report, decide, exit, done
  requestContext, \* event.requestContext, mutated in place
  callback,     \* local variable callback of __call__
  progress,     \* local variable progress of __call__
  remaining,    \* context.get_remaining_time_in_millis()
  raised,       \* where an error was raised inside this process invocation
  nDispatch,    \* calls of _invoke_handler in this process invocation
  reports,      \* the first and the last report_progress call, and their number
  sleeps,       \* number of sleep() calls in this process invocation
  rescheds,     \* calls of reschedule_after_minutes in this process invocation
  cleanups,     \* calls of cleanup_cloudwatch_events in this process invocation
  decision,     \* the last schedule_reinvocation call: inputs and outcome
  firstStatus,  \* the status of the event the first dispatch returned, or RAISED
  returned,     \* the status of the event the handler returned to the last dispatch
  thrown,       \* the first error raised during a dispatch, and the activity then
  failure,      \* the first failed collaborator call, and the activity then
  response,     \* what the process invocation returned to its caller
  nProcess,     \* process invocations of this logical operation so far
  passed,       \* the callback context passed to the last _invoke_handler call
  acks          \* start acknowledgments sent for this logical operation so far

vars ==
  <<payload, handlers, pc, requestContext, callback, progress, remaining, raised,
    nDispatch, reports, sleeps, rescheds, cleanups,
    decision, firstStatus, returned, thrown, failure, response, nProcess,
    passed, acks>>

NoDecision ==
  [made |-> FALSE, status |-> "Unset", d |-> 0, b |-> 0, kind |-> "Unset",
   ret |-> FALSE, minutes |-> -1, slept |-> -1]
NoThrow == [happened |-> FALSE, err |-> NoError, nDispatch |-> 0, sleeps |-> 0, calls |-> 0]
NoFailure == [happened |-> FALSE, nDispatch |-> 0, sleeps |-> 0, calls |-> 0]

\* Calls made so far to the progress sink and the reschedule service.
Calls == reports.n + Len(rescheds) + Len(cleanups)

\* ------------------------------------------------- the code, as operators

\* Every action taken for a mutating one: READ and LIST report as well.
IsMutating_all(action) == action \in Actions

\* UPDATE left out of the mutating actions.
IsMutating_noUpdate(action) == action \in {"CREATE", "DELETE"}

\* MUTATING_ACTIONS membership: action in MUTATING_ACTIONS.
IsMutating(action) == action \in MUTATING_ACTIONS

\* schedule_reinvocation rescheduling only for a delay of a minute or more: a
\* short delay with too little time left falls through without a reschedule.
schedule_reinvocation_drop(status, d, b) ==
  IF status # "IN_PROGRESS" THEN "NO_REINVOKE"
  ELSE IF d < 60 /\ b > NeededMs(d) THEN "LOCAL"
  ELSE IF d >= 60 THEN "EXTERNAL"
  ELSE "NO_REINVOKE"

\* schedule_reinvocation without the budget test: a short delay always
\* continues locally.
schedule_reinvocation_nobudget(status, d, b) ==
  IF status # "IN_PROGRESS" THEN "NO_REINVOKE"
  ELSE IF d < 60 THEN "LOCAL"
  ELSE "EXTERNAL"

\* schedule_reinvocation with the budget test written >= instead of >.
schedule_reinvocation_ge(status, d, b) ==
  IF status # "IN_PROGRESS" THEN "NO_REINVOKE"
  ELSE IF d < 60 /\ b >= NeededMs(d) THEN "LOCAL"
  ELSE "EXTERNAL"

\* schedule_reinvocation, its branch: no reinvocation for a status other than
\* IN_PROGRESS, a local sleep-and-repeat when the delay is under a minute and
\* the remaining time exceeds the needed time, a reschedule otherwise.
schedule_reinvocation(status, d, b) ==
  IF status # "IN_PROGRESS" THEN "NO_REINVOKE"
  ELSE IF d < 60 /\ b > NeededMs(d) THEN "LOCAL"
  ELSE "EXTERNAL"

\* The request context handed on as it is, without the counter.
BumpInvocation_skip(ctx) == ctx

\* The counter set to 1 on every reinvocation instead of incremented.
BumpInvocation_reset(ctx) == Put(ctx, "invocation", 1)

\* reinvoke_context["invocation"] = reinvoke_context.get("invocation", 0) + 1
BumpInvocation(ctx) == Put(ctx, "invocation", Get(ctx, "invocation", 0) + 1)

\* The delay rounded up to whole minutes instead of down.
callback_delay_min_ceil(d) == (d + 59) \div 60

\* callback_delay_min = int(callback_delay_s / 60), for a delay >= 0.
callback_delay_min(d) == d \div 60

\* The needed time slept (the delay with its 20% buffer) instead of the delay.
sleep_seconds_buffered(d) == (d * 1200) \div 1000

\* sleep(callback_delay_s): the seconds slept on a local reinvocation.
sleep_seconds(d) == d

\* The acknowledgment sent on every invocation, resumed ones included.
IsFirstInvocation_always(ctx) == TRUE

\* if not event.requestContext: the first invocation of the operation.
IsFirstInvocation(ctx) == DOMAIN ctx = {}

\* The callback context overwritten by whatever the event carries, empty or not.
next_callback_overwrite(cb, eventCb) == eventCb

\* if progress.callbackContext: callback = progress.callbackContext
next_callback(cb, eventCb) == IF eventCb # "empty" THEN eventCb ELSE cb

\* _HandlerError.to_progress_event(): FAILED with the error's own code.
to_progress_event(err) == Failed(err.code)

\* The except clauses of __call__ without the _HandlerError clause.
except_clauses_generic(err) == Failed("InternalFailure")

\* The except clauses of __call__: a structured handler error becomes its own
\* progress event, any other Exception or BaseException an InternalFailure.
except_clauses(err) ==
  IF err.cls = "HandlerError" THEN to_progress_event(err)
  ELSE Failed("InternalFailure")

\* HandlerRequest.deserialize, the credentials and Action[event.action]:
\* whether building the request from the payload raises.
DeserializeRaises(p) == p.kind # "ok"

\* _parse_request letting the exception through as it was raised.
parse_request_unwrapped(p) ==
  IF DeserializeRaises(p) THEN [cls |-> "Exception", code |-> "None"]
  ELSE NoError

\* _parse_request: any exception while building the request is re-raised as
\* InvalidRequest.
parse_request(p) ==
  IF DeserializeRaises(p) THEN [cls |-> "HandlerError", code |-> "InvalidRequest"]
  ELSE NoError

\* _invoke_handler letting the KeyError of the handler lookup escape.
invoke_handler_keyerror(hs, action, outcome) ==
  IF action \notin hs
  THEN [raises |-> [cls |-> "Exception", code |-> "None"], event |-> Unset]
  ELSE IF outcome.raises # NoError THEN outcome
  ELSE IF outcome.event.status = "IN_PROGRESS" /\ action \notin MUTATING_ACTIONS
  THEN [raises |-> [cls |-> "HandlerError", code |-> "InternalFailure"],
        event |-> Unset]
  ELSE outcome

\* _invoke_handler without the check of synchronous actions.
invoke_handler_unchecked(hs, action, outcome) ==
  IF action \notin hs
  THEN [raises |-> NoError, event |-> Failed("InternalFailure")]
  ELSE outcome

\* _invoke_handler: a FAILED event when no handler is registered, else the
\* handler's outcome, with IN_PROGRESS from a non-mutating action raised as
\* InternalFailure.
invoke_handler(hs, action, outcome) ==
  IF action \notin hs
  THEN [raises |-> NoError, event |-> Failed("InternalFailure")]
  ELSE IF outcome.raises # NoError THEN outcome
  ELSE IF outcome.event.status = "IN_PROGRESS" /\ ~IsMutating(action)
  THEN [raises |-> [cls |-> "HandlerError", code |-> "InternalFailure"],
        event |-> Unset]
  ELSE outcome

\* report_progress: the request it sends, and whether the call went through.
ReportCall(token, errorCode, status, current, model, ok) ==
  [BearerToken |-> token, OperationStatus |-> status, ErrorCode |-> errorCode,
   CurrentOperationStatus |-> current, ResourceModel |-> model, ok |-> ok]

NoReport == ReportCall("None", "None", "Unset", "Unset", "None", FALSE)
NoReports == [n |-> 0, first |-> NoReport, last |-> NoReport]

\* The log of report_progress calls with one more call.
Reported(log, call) ==
  [n |-> log.n + 1, first |-> IF log.n = 0 THEN call ELSE log.first, last |-> call]

\* report_progress with the failure of the call swallowed.
report_progress_swallowed(ok) == NoError

\* report_progress raises what client.record_handler_progress raises.
report_progress(ok) == IF ok THEN NoError ELSE [cls |-> "Exception", code |-> "None"]

\* reschedule_after_minutes and cleanup_cloudwatch_events are called with no
\* try around them: what they raise leaves schedule_reinvocation or __call__.
scheduler_call(ok) == IF ok THEN NoError ELSE [cls |-> "Exception", code |-> "None"]

\* ProgressEvent._serialize(to_response=True, bearer_token): the response
\* carries the status and the error code of the event, and the token.
to_response(prog, token) ==
  [status |-> prog.status, errorCode |-> prog.errorCode, bearerToken |-> token]

\* The return statement of __call__ followed by json.dumps of the wrapper:
\* event_data.get raises on a payload that is no mapping, json.dumps on an
\* event that does not serialize.
serialize(p, prog) ==
  IF p.kind = "notMapping" \/ ~prog.serializable
  THEN [raises |-> [cls |-> "Exception", code |-> "None"], value |-> NoResponse]
  ELSE [raises |-> NoError, value |-> to_response(prog, p.bearerToken)]

\* ProgressEvent.failed(InternalFailure, str(e))._serialize() of the wrapper:
\* no bearer token is passed.
Fallback ==
  [status |-> "FAILED", errorCode |-> "InternalFailure", bearerToken |-> "Absent"]

RaisedToCaller == [status |-> "RAISED", errorCode |-> "None", bearerToken |-> "Absent"]

\* The wrapper without its try: what the entrypoint or json.dumps raises
\* reaches the caller.
ensure_serialize_uncaught(r) ==
  IF r.raises = NoError THEN r.value ELSE RaisedToCaller

\* _ensure_serialize.wrapper: an Exception from the entrypoint or from
\* json.dumps is replaced by the fallback response.
ensure_serialize(r) ==
  IF r.raises = NoError THEN r.value
  ELSE IF r.raises.cls = "Exception" THEN Fallback
  ELSE RaisedToCaller

\* ------------------------------------------------------------------- Init

Fresh == EmptyMap
Resumed == Put(EmptyMap, "invocation", 1)

\* The inbound payloads: well formed for every action, fresh or resumed; with
\* a missing or invalid field; not a mapping at all.
Payloads ==
  {[kind |-> "ok", action |-> a, bearerToken |-> "tok", requestContext |-> c] :
      a \in Actions, c \in {Fresh, Resumed}}
    \cup
  {[kind |-> "noBearerToken", action |-> "CREATE", bearerToken |-> "None",
    requestContext |-> Fresh],
   [kind |-> "noCredentials", action |-> "READ", bearerToken |-> "tok",
    requestContext |-> Resumed],
   [kind |-> "badAction", action |-> "BOGUS", bearerToken |-> "tok",
    requestContext |-> Fresh],
   [kind |-> "notMapping", action |-> "None", bearerToken |-> "None",
    requestContext |-> Fresh]}

\* The handler tables: a handler registered for every action, or for none.
HandlerTables == {Actions, {}}

Enter(p, budget, n) ==
  /\ payload' = p
  /\ pc' = "start"
  /\ requestContext' = EmptyMap
  /\ callback' = "empty"
  /\ progress' = Unset
  /\ remaining' = budget
  /\ raised' = {}
  /\ nDispatch' = 0
  /\ reports' = NoReports
  /\ sleeps' = 0
  /\ rescheds' = <<>>
  /\ cleanups' = <<>>
  /\ decision' = NoDecision
  /\ firstStatus' = "Unset"
  /\ returned' = "Unset"
  /\ thrown' = NoThrow
  /\ failure' = NoFailure
  /\ response' = NoResponse
  /\ nProcess' = n
  /\ passed' = "Unset"

Init ==
  /\ payload \in Payloads
  /\ handlers \in HandlerTables
  /\ pc = "start"
  /\ requestContext = EmptyMap
  /\ callback = "empty"
  /\ progress = Unset
  /\ remaining = AmpleMs
  /\ raised = {}
  /\ nDispatch = 0
  /\ reports = NoReports
  /\ sleeps = 0
  /\ rescheds = <<>>
  /\ cleanups = <<>>
  /\ decision = NoDecision
  /\ firstStatus = "Unset"
  /\ returned = "Unset"
  /\ thrown = NoThrow
  /\ failure = NoFailure
  /\ response = NoResponse
  /\ nProcess = 1
  /\ passed = "Unset"
  /\ acks = 0

\* The first failed collaborator call, with the activity counted at it.
NoteFailure(ok, calls) ==
  IF ~ok /\ ~failure.happened
  THEN [happened |-> TRUE, nDispatch |-> nDispatch, sleeps |-> sleeps, calls |-> calls]
  ELSE failure

\* ---------------------------------------------------------------- actions

\* __call__ up to the loop: parse the request, then acknowledge a first
\* invocation to the progress sink or clean up the trigger of a resumed one.
Call ==
  /\ pc = "start"
  /\ LET perr == parse_request(payload) IN
     IF perr # NoError
     THEN /\ progress' = except_clauses(perr)
          /\ raised' = raised \cup {"parse"}
          /\ pc' = "exit"
          /\ UNCHANGED <<requestContext, callback, reports, cleanups, failure, acks>>
     ELSE \E ok \in BOOLEAN :
          LET fresh == IsFirstInvocation(payload.requestContext)
              cerr == IF fresh THEN report_progress(ok) ELSE scheduler_call(ok)
          IN
          /\ requestContext' = payload.requestContext
          /\ callback' = Get(payload.requestContext, "callbackContext", "empty")
          /\ IF fresh
             THEN /\ reports' = Reported(reports,
                       ReportCall(payload.bearerToken, "None", "IN_PROGRESS", "PENDING", "None", ok))
                  /\ acks' = acks + 1
                  /\ UNCHANGED cleanups
             ELSE /\ cleanups' = Append(cleanups,
                       [rule |-> Get(payload.requestContext, "cloudWatchEventsRuleName", ""),
                        target |-> Get(payload.requestContext, "cloudWatchEventsTargetId", ""),
                        ok |-> ok])
                  /\ UNCHANGED <<reports, acks>>
          /\ failure' = NoteFailure(ok, Calls + 1)
          /\ IF cerr # NoError
             THEN /\ progress' = except_clauses(cerr)
                  /\ raised' = raised \cup {IF fresh THEN "ack" ELSE "cleanup"}
                  /\ pc' = "exit"
             ELSE /\ pc' = "loop"
                  /\ UNCHANGED <<progress, raised>>
  /\ UNCHANGED <<payload, handlers, remaining, nDispatch, sleeps,
                  rescheds, decision, firstStatus, returned, thrown, response, nProcess,
                  passed>>

\* One pass of the loop up to the report: _invoke_handler, the error raised
\* out of the loop, the callback context stored in the request context.
Dispatch ==
  /\ pc = "loop"
  /\ \E o \in HandlerOutcomes, t \in {x \in TimePoints : x < remaining \/ x = 0} :
       LET r == invoke_handler(handlers, payload.action, o) IN
       /\ remaining' = t
       /\ nDispatch' = nDispatch + 1
       /\ decision' = NoDecision
       /\ passed' = callback
       /\ firstStatus' = IF nDispatch > 0 THEN firstStatus
                        ELSE IF r.raises # NoError THEN "RAISED" ELSE r.event.status
       /\ returned' = IF payload.action \in handlers THEN o.event.status ELSE "Unset"
       /\ IF r.raises # NoError
          THEN /\ progress' = except_clauses(r.raises)
               /\ raised' = raised \cup {"dispatch"}
               /\ thrown' = IF thrown.happened THEN thrown
                            ELSE [happened |-> TRUE, err |-> r.raises,
                                  nDispatch |-> nDispatch + 1, sleeps |-> sleeps,
                                  calls |-> Calls]
               /\ pc' = "exit"
               /\ UNCHANGED <<callback, requestContext>>
          ELSE /\ progress' = r.event
               /\ callback' = next_callback(callback, r.event.callbackContext)
               /\ requestContext' =
                    IF r.event.callbackContext = "empty" THEN requestContext
                    ELSE Put(requestContext, "callbackContext",
                             next_callback(callback, r.event.callbackContext))
               /\ pc' = "report"
               /\ UNCHANGED <<raised, thrown>>
  /\ UNCHANGED <<payload, handlers, reports, sleeps, rescheds, cleanups,
                 failure, response, nProcess, acks>>

\* The report of the pass: report_progress for a mutating action.
Report ==
  /\ pc = "report"
  /\ IF IsMutating(payload.action)
     THEN \E ok \in BOOLEAN :
          LET e == report_progress(ok) IN
          /\ reports' = Reported(reports,
               ReportCall(payload.bearerToken, progress.errorCode, progress.status,
                          "IN_PROGRESS", "progress.resourceModel", ok))
          /\ failure' = NoteFailure(ok, Calls + 1)
          /\ IF e # NoError
             THEN /\ progress' = except_clauses(e)
                  /\ raised' = raised \cup {"report"}
                  /\ pc' = "exit"
             ELSE /\ pc' = "decide"
                  /\ UNCHANGED <<progress, raised>>
     ELSE /\ pc' = "decide"
          /\ UNCHANGED <<reports, failure, progress, raised>>
  /\ UNCHANGED <<payload, handlers, requestContext, callback, remaining, nDispatch,
                 sleeps, rescheds, cleanups, decision,
                 firstStatus, returned, thrown, response, nProcess, passed, acks>>

\* schedule_reinvocation and the loop test: no reinvocation, a sleep and
\* another pass, or a reschedule that ends the loop.
Decide ==
  /\ pc = "decide"
  /\ LET d == progress.callbackDelaySeconds
         b == remaining
         k == schedule_reinvocation(progress.status, d, b)
         ctx == IF progress.status # "IN_PROGRESS" THEN requestContext
                ELSE BumpInvocation(requestContext)
         made(ret, minutes, slept) ==
           [made |-> TRUE, status |-> progress.status, d |-> d, b |-> b,
            kind |-> k, ret |-> ret, minutes |-> minutes, slept |-> slept]
     IN
     /\ requestContext' = ctx
     /\ CASE k = "LOCAL" ->
               /\ \E t \in {x \in TimePoints : x <= b - sleep_seconds(d) * 1000} :
                    remaining' = t
               /\ sleeps' = sleeps + 1
               /\ decision' = made(TRUE, -1, sleep_seconds(d))
               /\ pc' = "loop"
               /\ UNCHANGED <<rescheds, failure, progress, raised>>
          [] k = "EXTERNAL" ->
               \E ok \in BOOLEAN :
               LET e == scheduler_call(ok) IN
               /\ rescheds' = Append(rescheds,
                    [minutes |-> callback_delay_min(d), action |-> payload.action,
                     bearerToken |-> payload.bearerToken, requestContext |-> ctx,
                     ok |-> ok])
               /\ failure' = NoteFailure(ok, Calls + 1)
               /\ decision' = made(FALSE, callback_delay_min(d), -1)
               /\ pc' = "exit"
               /\ IF e # NoError
                  THEN /\ progress' = except_clauses(e)
                       /\ raised' = raised \cup {"reschedule"}
                  ELSE UNCHANGED <<progress, raised>>
               /\ UNCHANGED <<remaining, sleeps>>
          [] OTHER ->
               /\ decision' = made(FALSE, -1, -1)
               /\ pc' = "exit"
               /\ UNCHANGED <<remaining, sleeps, rescheds, failure,
                              progress, raised>>
  /\ UNCHANGED <<payload, handlers, callback, nDispatch, reports,
                 cleanups, firstStatus, returned, thrown, response, nProcess,
                 passed, acks>>

\* The return of __call__ through the wrapper: the response serialized from
\* the last progress event, or the fallback.
Return ==
  /\ pc = "exit"
  /\ LET s == serialize(payload, progress) IN
     /\ response' = ensure_serialize(s)
     /\ raised' = IF s.raises # NoError THEN raised \cup {"serialize"} ELSE raised
  /\ pc' = "done"
  /\ UNCHANGED <<payload, handlers, requestContext, callback, progress, remaining,
                 nDispatch, reports, sleeps, rescheds,
                 cleanups, decision, firstStatus, returned, thrown, failure, nProcess,
                 passed, acks>>

\* The trigger registered by a reschedule fires: a new process invocation
\* whose payload carries the rescheduled request.
Fire ==
  /\ pc = "done"
  /\ Len(rescheds) > 0
  /\ rescheds[Len(rescheds)].ok
  /\ Enter([kind |-> "ok", action |-> payload.action,
              bearerToken |-> payload.bearerToken,
              requestContext |->
                Put(Put(rescheds[Len(rescheds)].requestContext,
                        "cloudWatchEventsRuleName", "rule"),
                    "cloudWatchEventsTargetId", "target")],
       AmpleMs, nProcess + 1)
  /\ UNCHANGED <<handlers, acks>>

\* The chain of process invocations is followed up to MaxProcess of them.
Trigger == nProcess < MaxProcess /\ Fire

Next == Call \/ Dispatch \/ Report \/ Decide \/ Return \/ Trigger

Spec == Init /\ [][Next]_vars

\* ---------------------------------------------------------------------------
\* The operation under the hypotheses of progress: a mutating action, no
\* collaborator call fails, the handler raises nothing and returns a terminal
\* event once the invocation counter has reached MaxInProgress, and every
\* registered trigger fires.

LiveInit ==
  /\ Init
  /\ payload.kind = "ok"
  /\ IsMutating(payload.action)

LiveCall == Call /\ ~failure'.happened

LiveDispatch ==
  /\ Dispatch
  /\ ~thrown'.happened
  /\ progress'.status = "IN_PROGRESS" =>
       Get(requestContext, "invocation", 0) < MaxInProgress

LiveReport == Report /\ ~failure'.happened

LiveDecide == Decide /\ ~failure'.happened

LiveNext == LiveCall \/ LiveDispatch \/ LiveReport \/ LiveDecide \/ Return \/ Fire

\* The steps of one invocation follow one another in one thread, and the
\* trigger service fires what was registered.
LiveSpec == LiveInit /\ [][LiveNext]_vars /\ WF_vars(LiveNext)

\* ------------------------------------------------------------------ claims

WellFormed == payload.kind = "ok"
FreshOperation == WellFormed /\ DOMAIN payload.requestContext = {}
Invocation(ctx) == Get(ctx, "invocation", 0)
MutatingAction == payload.action \in {"CREATE", "UPDATE", "DELETE"}
LocalTest(d, b) == d < 60 /\ b > d * 1200 + 60000

C2_Counter ==
  (WellFormed /\ pc # "start") =>
    /\ Invocation(requestContext) =
         Invocation(payload.requestContext) + sleeps + Len(rescheds)
    /\ (FreshOperation /\ sleeps + Len(rescheds) = 0) =>
         "invocation" \notin DOMAIN requestContext

\* A fresh operation that continued locally twice and then rescheduled: its
\* counter, absent at the start, stands at 3.
C2_Witness ==
  /\ FreshOperation
  /\ pc = "done"
  /\ sleeps = 2
  /\ Len(rescheds) = 1
  /\ response.status = "IN_PROGRESS"
  /\ Invocation(requestContext) = 3

\* C3: for READ or LIST, a handler that returns IN_PROGRESS makes the dispatch
\* raise InternalFailure: the event is never handed on to the report or the
\* decision, no response of a READ or LIST invocation is IN_PROGRESS, and the
\* response in that case is FAILED with errorCode InternalFailure.
C3_SyncOnly ==
  (WellFormed /\ payload.action \in {"READ", "LIST"}) =>
    /\ response.status # "IN_PROGRESS"
    /\ returned = "IN_PROGRESS" =>
         /\ pc \in {"exit", "done"}
         /\ thrown.happened
         /\ thrown.err = [cls |-> "HandlerError", code |-> "InternalFailure"]
         /\ pc = "done" =>
              /\ response.status = "FAILED"
              /\ response.errorCode = "InternalFailure"

\* A LIST invocation whose handler returned IN_PROGRESS has answered FAILED.
C3_Witness ==
  /\ WellFormed
  /\ payload.action = "LIST"
  /\ returned = "IN_PROGRESS"
  /\ pc = "done"
  /\ response.status = "FAILED"
  /\ response.errorCode = "InternalFailure"

\* The pass that just ended asked for a reschedule: a mutating action, an
\* IN_PROGRESS event and a failed LOCAL test.
ExternalCase ==
  /\ decision.made
  /\ MutatingAction
  /\ decision.status = "IN_PROGRESS"
  /\ (decision.d >= 60 \/ decision.b <= decision.d * 1200 + 60000)

\* What C4 says of the loop itself in the external case: one reschedule call
\* with delayMinutes = floor(d / 60) and the current request snapshot, no
\* sleep in that pass, no further dispatch.
C4_Loop ==
  /\ Len(rescheds) <= 1
  /\ ExternalCase =>
       /\ Len(rescheds) = 1
       /\ rescheds[1].minutes * 60 <= decision.d
       /\ decision.d < rescheds[1].minutes * 60 + 60
       /\ (decision.d <= 59 => rescheds[1].minutes = 0)
       /\ (decision.d = 900 => rescheds[1].minutes = 15)
       /\ rescheds[1].requestContext = requestContext
       /\ rescheds[1].action = payload.action
       /\ rescheds[1].bearerToken = payload.bearerToken
       /\ Get(rescheds[1].requestContext, "callbackContext", "empty") = callback
       /\ sleeps = nDispatch - 1
       /\ pc \in {"exit", "done"}

\* C4 as stated: in the external case the loop reschedules once, does not
\* sleep, dispatches no more, and the response is IN_PROGRESS.
C4_Original ==
  /\ C4_Loop
  /\ (ExternalCase /\ pc = "done") => response.status = "IN_PROGRESS"

\* C4 amended: the response is IN_PROGRESS when the reschedule call went
\* through and the event serializes, and FAILED with InternalFailure
\* otherwise.
C4_Amended ==
  /\ C4_Loop
  /\ (ExternalCase /\ pc = "done") =>
       IF rescheds[1].ok /\ progress.serializable
       THEN response.status = "IN_PROGRESS"
       ELSE response.status = "FAILED" /\ response.errorCode = "InternalFailure"

\* A DELETE whose handler asked for 900 seconds: rescheduled at 15 minutes
\* and answered IN_PROGRESS.
C4_Witness ==
  /\ payload.action = "DELETE"
  /\ ExternalCase
  /\ decision.d = 900
  /\ Len(rescheds) = 1
  /\ rescheds[1].minutes = 15
  /\ rescheds[1].ok
  /\ pc = "done"
  /\ response.status = "IN_PROGRESS"

\* C5: when the decision reads a budget b > d*1200 + 60000 for an IN_PROGRESS
\* event with d < 60, the loop sleeps exactly d seconds, calls no reschedule
\* and goes on to the next dispatch; it sleeps in no other case, so every
\* sleep of d seconds has d*1000 < b - 60000, and every pass but the last one
\* was followed by one sleep.
C5_Local ==
  /\ (decision.made /\ MutatingAction /\ decision.status = "IN_PROGRESS"
        /\ LocalTest(decision.d, decision.b)) =>
       /\ decision.slept = decision.d
       /\ Len(rescheds) = 0
       /\ pc = "loop"
       /\ sleeps = nDispatch
  /\ (decision.made /\ decision.slept >= 0) =>
       /\ decision.status = "IN_PROGRESS"
       /\ LocalTest(decision.d, decision.b)
       /\ decision.slept * 1000 < decision.b - 60000
  /\ (pc \in {"report", "decide", "exit", "done"} /\ nDispatch > 0) =>
       sleeps = nDispatch - 1
  /\ (pc = "loop" /\ nDispatch > 0) => (decision.made /\ decision.slept >= 0)

\* An UPDATE has slept 59 seconds, decided on a budget one millisecond above
\* the threshold, and stands before its second dispatch.
C5_Witness ==
  /\ payload.action = "UPDATE"
  /\ decision.made
  /\ decision.d = 59
  /\ decision.b = 130801
  /\ decision.slept = 59
  /\ nDispatch = 1
  /\ pc = "loop"

Terminal == {"SUCCESS", "FAILED"}

\* The first dispatch of a fresh operation with a mutating action returned a
\* terminal event, and the invocation has returned.
TerminalFirst ==
  /\ FreshOperation
  /\ MutatingAction
  /\ firstStatus \in Terminal
  /\ pc = "done"

\* What C6 says of the loop itself: one dispatch, two calls of the progress
\* sink, the start acknowledgment and then the terminal status, no sleep and
\* no reschedule call.
C6_Loop ==
  TerminalFirst =>
    /\ nDispatch = 1
    /\ reports.n = 2
    /\ reports.first.OperationStatus = "IN_PROGRESS"
    /\ reports.first.CurrentOperationStatus = "PENDING"
    /\ reports.first.ok
    /\ reports.last.OperationStatus = firstStatus
    /\ reports.last.CurrentOperationStatus = "IN_PROGRESS"
    /\ sleeps = 0
    /\ Len(rescheds) = 0

\* C6 as stated: the sink receives the two reports and the response carries
\* the status of the event.
C6_Original ==
  /\ C6_Loop
  /\ TerminalFirst => (reports.last.ok /\ response.status = firstStatus)

\* C6 amended: the response carries the status of the event when the report
\* of the terminal status went through and the event serializes; it is FAILED
\* with InternalFailure otherwise.
C6_Amended ==
  /\ C6_Loop
  /\ TerminalFirst =>
       IF reports.last.ok /\ progress.serializable
       THEN response.status = firstStatus
       ELSE response.status = "FAILED" /\ response.errorCode = "InternalFailure"

\* A fresh CREATE answered SUCCESS after one dispatch and two reports.
C6_Witness ==
  /\ TerminalFirst
  /\ payload.action = "CREATE"
  /\ firstStatus = "SUCCESS"
  /\ reports.n = 2
  /\ reports.last.ok
  /\ response.status = "SUCCESS"

\* C7: once the handler has raised during a dispatch there is no further
\* dispatch, no sleep and no call of the progress sink or the reschedule
\* service, and the response is FAILED with the error's own code for a
\* structured handler error and InternalFailure for any other error.
C7_HandlerRaises ==
  thrown.happened =>
    /\ pc \in {"exit", "done"}
    /\ nDispatch = thrown.nDispatch
    /\ sleeps = thrown.sleeps
    /\ Calls = thrown.calls
    /\ pc = "done" =>
         /\ response.status = "FAILED"
         /\ response.errorCode =
              IF thrown.err.cls = "HandlerError" THEN thrown.err.code
              ELSE "InternalFailure"

\* A READ whose handler raised NotFound has answered FAILED with NotFound.
C7_Witness ==
  /\ payload.action = "READ"
  /\ thrown.happened
  /\ thrown.err = [cls |-> "HandlerError", code |-> "NotFound"]
  /\ pc = "done"
  /\ response.status = "FAILED"
  /\ response.errorCode = "NotFound"
  /\ Len(rescheds) = 0

\* C8: once a call of the progress sink or of the reschedule service has
\* failed there is no dispatch, no sleep and no further call of either, and
\* the response is FAILED with InternalFailure whatever the handler returned.
C8_CollaboratorFails ==
  failure.happened =>
    /\ pc \in {"exit", "done"}
    /\ nDispatch = failure.nDispatch
    /\ sleeps = failure.sleeps
    /\ Calls = failure.calls
    /\ pc = "done" =>
         /\ response.status = "FAILED"
         /\ response.errorCode = "InternalFailure"

\* The report of a SUCCESS event failed and the answer is FAILED.
C8_Witness ==
  /\ failure.happened
  /\ returned = "SUCCESS"
  /\ reports.n = 2
  /\ ~reports.last.ok
  /\ reports.last.OperationStatus = "SUCCESS"
  /\ pc = "done"
  /\ response.status = "FAILED"
  /\ response.errorCode = "InternalFailure"

Malformed == payload.kind \in {"noBearerToken", "noCredentials", "badAction"}

\* C9: for a payload with a missing or invalid field no handler is invoked,
\* no call goes to the progress sink, the reschedule service or the trigger
\* cleanup, and the response is FAILED with errorCode InvalidRequest.
C9_InvalidRequest ==
  Malformed =>
    /\ nDispatch = 0
    /\ returned = "Unset"
    /\ Calls = 0
    /\ pc \notin {"loop", "report", "decide"}
    /\ pc = "done" =>
         /\ response.status = "FAILED"
         /\ response.errorCode = "InvalidRequest"

\* A payload without bearerToken has been answered FAILED / InvalidRequest.
C9_Witness ==
  /\ payload.kind = "noBearerToken"
  /\ pc = "done"
  /\ "parse" \in raised
  /\ response.status = "FAILED"
  /\ response.errorCode = "InvalidRequest"

\* C10: a process invocation that has ended has returned a response with a
\* status and has raised nothing to its caller, and when an error was raised
\* anywhere inside it the response is FAILED with an errorCode; an invocation
\* that left the loop can always return.
C10_AlwaysResponds ==
  /\ pc = "done" =>
       /\ response.status \in Statuses
       /\ raised # {} =>
            /\ response.status = "FAILED"
            /\ response.errorCode # "None"
  /\ pc # "done" => response = NoResponse
  /\ pc = "exit" => ENABLED Return

\* A READ whose SUCCESS event does not serialize has been answered with the
\* fallback response.
C10_Witness ==
  /\ payload.action = "READ"
  /\ returned = "SUCCESS"
  /\ raised = {"serialize"}
  /\ pc = "done"
  /\ response.status = "FAILED"
  /\ response.errorCode = "InternalFailure"

\* The inbound payload carries a bearer token.
HasBearerToken == payload.kind # "notMapping" /\ payload.bearerToken # "None"

\* C11: every response of a process invocation whose payload carries a bearer
\* token includes that bearer token, whatever the exit path: normal
\* completion, handler error, collaborator error, parse error and the
\* serialization fallback of the wrapper.
C11_BearerToken ==
  (pc = "done" /\ HasBearerToken) => response.bearerToken = payload.bearerToken

\* The same on every exit path but the serialization fallback of the wrapper.
C11_ButFallback ==
  (pc = "done" /\ HasBearerToken /\ "serialize" \notin raised) =>
     response.bearerToken = payload.bearerToken

\* C12: in every response errorCode is present exactly when status is FAILED,
\* for every Progress Event a registered handler may return (any combination
\* of status and errorCode) and on every error path.
C12_ErrorCodeIffFailed ==
  pc = "done" => (response.errorCode # "None" <=> response.status = "FAILED")

\* The same for the responses built on an error path, and for the responses
\* built from a handler's event that itself has errorCode exactly when FAILED.
C12_ErrorPaths ==
  /\ (pc = "done" /\ raised # {}) =>
        (response.errorCode # "None" /\ response.status = "FAILED")
  /\ (pc = "done" /\ raised = {}
        /\ (progress.errorCode # "None" <=> progress.status = "FAILED")) =>
        (response.errorCode # "None" <=> response.status = "FAILED")

\* The start acknowledgment of this process invocation, 1 when it was sent.
StartAcks ==
  IF reports.n > 0 /\ reports.first.CurrentOperationStatus = "PENDING" THEN 1 ELSE 0

\* Events that dispatches of this process invocation have returned so far.
EventsReturned == IF "dispatch" \in raised THEN nDispatch - 1 ELSE nDispatch

\* C13: for READ and LIST no Progress Event produced by a dispatch is reported
\* to the progress sink and no reschedule call is made; for a mutating action
\* every Progress Event a dispatch returns is reported exactly once, with
\* current status IN_PROGRESS, before the reinvocation decision of that
\* iteration (counter increment, sleep or reschedule).
C13_ReportPerEvent ==
  WellFormed =>
    IF ~MutatingAction
    THEN /\ reports.n = StartAcks
         /\ Len(rescheds) = 0
    ELSE /\ pc = "report" =>
              /\ reports.n = StartAcks + EventsReturned - 1
              /\ ~decision.made
         /\ pc \in {"loop", "decide", "exit", "done"} =>
              reports.n = StartAcks + EventsReturned
         /\ pc = "decide" =>
              /\ reports.last.OperationStatus = progress.status
              /\ reports.last.ErrorCode = progress.errorCode
              /\ reports.last.CurrentOperationStatus = "IN_PROGRESS"
              /\ reports.last.BearerToken = payload.bearerToken
              /\ ~decision.made
              /\ sleeps = nDispatch - 1
              /\ Len(rescheds) = 0
              /\ Invocation(requestContext)
                   = Invocation(payload.requestContext) + nDispatch - 1
         /\ reports.n > StartAcks =>
              reports.last.CurrentOperationStatus = "IN_PROGRESS"

\* The third event of an UPDATE has been reported and the decision on it is
\* still to be made.
C13_Witness ==
  /\ WellFormed
  /\ payload.action = "UPDATE"
  /\ pc = "decide"
  /\ nDispatch = 3
  /\ reports.n = StartAcks + 3
  /\ sleeps = 2

\* No handler is registered for the requested action and the dispatcher has
\* been called.
NoHandlerDispatched == WellFormed /\ payload.action \notin handlers /\ nDispatch > 0

\* C14: when no handler is registered for the requested action the dispatcher
\* returns a FAILED event with errorCode InternalFailure and raises nothing,
\* and the loop treats it as a terminal event: exactly one dispatch, no sleep,
\* no reschedule call, a FAILED report to the progress sink when the action is
\* mutating, and a FAILED / InternalFailure response.
C14_NoHandler ==
  NoHandlerDispatched =>
    /\ nDispatch = 1
    /\ returned = "Unset"
    /\ ~thrown.happened
    /\ "dispatch" \notin raised
    /\ firstStatus = "FAILED"
    /\ sleeps = 0
    /\ Len(rescheds) = 0
    /\ pc \in {"report", "decide", "exit", "done"}
    /\ decision.made => decision.kind = "NO_REINVOKE"
    /\ (MutatingAction /\ pc \in {"decide", "exit", "done"}) =>
         /\ reports.n = StartAcks + 1
         /\ reports.last.OperationStatus = "FAILED"
         /\ reports.last.ErrorCode = "InternalFailure"
         /\ reports.last.CurrentOperationStatus = "IN_PROGRESS"
    /\ ~MutatingAction => reports.n = StartAcks
    /\ pc = "done" =>
         /\ response.status = "FAILED"
         /\ response.errorCode = "InternalFailure"

\* A DELETE without handler has been answered FAILED / InternalFailure after
\* one dispatch and one FAILED report that went through.
C14_Witness ==
  /\ NoHandlerDispatched
  /\ payload.action = "DELETE"
  /\ pc = "done"
  /\ raised = {}
  /\ reports.last.OperationStatus = "FAILED"
  /\ reports.last.ok
  /\ response.status = "FAILED"

\* The progress sink has received the report of a terminal event, the one the
\* handler returned when a handler is registered.
TerminalReported ==
  /\ reports.n > 0
  /\ reports.last.ok
  /\ reports.last.CurrentOperationStatus = "IN_PROGRESS"
  /\ reports.last.OperationStatus \in Terminal
  /\ returned # "Unset" => reports.last.OperationStatus = returned

\* C15: for a mutating action, when no collaborator call fails, every
\* registered trigger fires with the snapshot and the handler returns SUCCESS
\* or FAILED after finitely many dispatches, the progress sink eventually
\* receives a report with that terminal status, and from then on no dispatch,
\* sleep or reschedule call of that operation happens.
C15_Completes ==
  /\ <>TerminalReported
  /\ [][TerminalReported =>
          /\ TerminalReported'
          /\ nDispatch' = nDispatch
          /\ sleeps' = sleeps
          /\ rescheds' = rescheds]_vars

\* An operation whose third process invocation delivered the terminal report.
C15_Witness ==
  /\ nProcess = 3
  /\ TerminalReported
  /\ returned = "SUCCESS"
  /\ pc = "done"

\* The start acknowledgment: IN_PROGRESS with current status PENDING, no error
\* code and no resource model.
IsStartAck(call) ==
  /\ call.BearerToken = payload.bearerToken
  /\ call.OperationStatus = "IN_PROGRESS"
  /\ call.CurrentOperationStatus = "PENDING"
  /\ call.ErrorCode = "None"
  /\ call.ResourceModel = "None"

\* C16: in a process invocation with a well-formed payload exactly one of two
\* start actions happens before the first dispatch: when the request context
\* is absent or empty, one report with status IN_PROGRESS, current status
\* PENDING, no error code and no resource model; otherwise one cleanupTrigger
\* call with the rule name and target id of the request context (empty
\* strings when absent) and no start acknowledgment.
C16_StartAction ==
  WellFormed =>
    /\ pc = "start" => (nDispatch = 0 /\ Calls = 0)
    /\ pc # "start" =>
         IF DOMAIN payload.requestContext = {}
         THEN /\ reports.n >= 1
              /\ IsStartAck(reports.first)
              /\ reports.n >= 2 => reports.last.CurrentOperationStatus # "PENDING"
              /\ Len(cleanups) = 0
         ELSE /\ Len(cleanups) = 1
              /\ cleanups[1].rule =
                   Get(payload.requestContext, "cloudWatchEventsRuleName", "")
              /\ cleanups[1].target =
                   Get(payload.requestContext, "cloudWatchEventsTargetId", "")
              /\ StartAcks = 0
              /\ reports.n >= 1 => reports.last.CurrentOperationStatus # "PENDING"
    /\ nDispatch > 0 =>
         IF DOMAIN payload.requestContext = {}
         THEN reports.first.ok
         ELSE cleanups[1].ok

\* A process invocation with a request context that names no trigger has made
\* the cleanup call with empty strings, sent no acknowledgment, and dispatched.
C16_Witness ==
  /\ WellFormed
  /\ nProcess = 1
  /\ DOMAIN payload.requestContext # {}
  /\ nDispatch = 1
  /\ Len(cleanups) = 1
  /\ cleanups[1].rule = ""
  /\ cleanups[1].target = ""
  /\ reports.n = 0

\* The callback context stored in a request context, "empty" when it has none.
StoredCallback(ctx) == Get(ctx, "callbackContext", "empty")

\* A dispatch that follows another one in the same process invocation.
NextDispatch == pc = "loop" /\ nDispatch >= 1 /\ nDispatch' = nDispatch + 1

\* A reschedule call went through: progress is still the event it was made for.
Rescheduled == Len(rescheds) = 1 /\ rescheds[1].ok

\* C17: within one process invocation the callback context passed to dispatch
\* k+1 is the callbackContext carried by the event dispatch k returned, and
\* that same value is the callbackContext stored in the request context
\* handed to the reschedule service.
C17_Original ==
  /\ [][NextDispatch => passed' = progress.callbackContext]_vars
  /\ [](Rescheduled =>
          StoredCallback(rescheds[1].requestContext) = progress.callbackContext)

\* C17 amended: the callback context passed to dispatch k+1 is the
\* callbackContext carried by the event dispatch k returned when that is not
\* empty, and otherwise the callback context that was passed to dispatch k;
\* that same value is the callbackContext stored in the request context
\* handed to the reschedule service.
C17_Amended ==
  /\ [][NextDispatch =>
          passed' = IF progress.callbackContext # "empty"
                    THEN progress.callbackContext ELSE passed]_vars
  /\ [](Rescheduled =>
          StoredCallback(rescheds[1].requestContext) =
             IF progress.callbackContext # "empty"
             THEN progress.callbackContext ELSE passed)

\* The second event of a fresh operation carried no callback context after
\* the first had carried one: the third dispatch is about to get the first's.
C17_Witness ==
  /\ FreshOperation
  /\ pc = "loop"
  /\ nDispatch = 2
  /\ passed = "c1"
  /\ progress.callbackContext = "empty"
  /\ callback = "c1"

\* A process invocation for a mutating action with a well-formed payload has
\* returned its response.
MutatingReturned == WellFormed /\ MutatingAction /\ pc = "done"

\* C18: for a mutating action with a well-formed payload, whenever a process
\* invocation returns a response, the most recent report sent to the progress
\* sink carries the same status as the response (a FAILED response is always
\* preceded by a FAILED report).
C18_LastReport ==
  MutatingReturned =>
    /\ reports.n > 0
    /\ reports.last.OperationStatus = response.status

\* What holds instead: when no error was raised inside the process
\* invocation, the most recent report went through, is the report of the last
\* event and carries the status of the response; when an error was raised,
\* the response is FAILED and no report was sent after the error.
C18_WhenNoError ==
  /\ (MutatingReturned /\ raised = {}) =>
        /\ reports.n = StartAcks + nDispatch
        /\ reports.last.CurrentOperationStatus = "IN_PROGRESS"
        /\ reports.last.ok
        /\ reports.last.OperationStatus = response.status
        /\ reports.last.ErrorCode = response.errorCode
  /\ (MutatingReturned /\ raised # {}) =>
        /\ response.status = "FAILED"
        /\ reports.n = StartAcks + EventsReturned

\* The observable budgets from which a local continuation is possible at all:
\* each dispatch ends at a lower one, so no more dispatches fit in one
\* process invocation.
MaxDispatches == Cardinality({t \in TimePoints : t > INVOCATION_TIMEOUT_MS})

\* One step of the process invocation itself.
Step == Call \/ Dispatch \/ Report \/ Decide \/ Return

\* C19: every process invocation terminates: with a remaining budget that
\* never increases and goes down with every pass, the loop makes finitely
\* many dispatches even for a handler that returns IN_PROGRESS with delay 0 on
\* every call, because a local continuation requires
\* remaining > d*1200 + 60000 and the first pass that fails this test ends the
\* loop with an external reschedule; until it has returned the invocation can
\* always take a step.
C19_Terminates ==
  /\ nDispatch <= MaxDispatches
  /\ (pc = "loop" /\ nDispatch >= 1) =>
        /\ decision.kind = "LOCAL"
        /\ decision.b > decision.d * 1200 + INVOCATION_TIMEOUT_MS
        /\ remaining <= decision.b
  /\ (decision.made /\ decision.status = "IN_PROGRESS"
        /\ ~LocalTest(decision.d, decision.b)) =>
        /\ decision.kind = "EXTERNAL"
        /\ pc \in {"exit", "done"}
        /\ Len(rescheds) = 1
  /\ pc # "done" => ENABLED Step

\* A handler that answered IN_PROGRESS with delay 0 on every call: after as
\* many dispatches as fit, the test failed and the invocation has returned
\* with one reschedule.
C19_Witness ==
  /\ WellFormed
  /\ nDispatch = MaxDispatches
  /\ sleeps = MaxDispatches - 1
  /\ decision.made
  /\ decision.status = "IN_PROGRESS"
  /\ decision.d = 0
  /\ decision.kind = "EXTERNAL"
  /\ Len(rescheds) = 1
  /\ pc = "done"

\* A request context as a reschedule leaves it: not empty, with a counter of
\* at least 1.
Continued(ctx) == DOMAIN ctx # {} /\ Invocation(ctx) >= 1

\* C20: across the chain of process invocations of one logical operation the
\* PENDING to IN_PROGRESS start acknowledgment is sent at most once: every
\* request snapshot handed to the reschedule service has a non-empty request
\* context with invocation >= 1, so a process invocation started from such a
\* snapshot calls cleanupTrigger and sends no start acknowledgment.
C20_AckOnce ==
  /\ acks <= 1
  /\ \A i \in 1..Len(rescheds) : Continued(rescheds[i].requestContext)
  /\ nProcess >= 2 =>
       /\ WellFormed
       /\ Continued(payload.requestContext)
       /\ StartAcks = 0
       /\ reports.n > 0 => reports.first.CurrentOperationStatus = "IN_PROGRESS"
       /\ pc # "start" => Len(cleanups) = 1

\* The second process invocation of an operation whose first one sent the
\* acknowledgment: it cleaned its trigger up, reported an event and returned.
C20_Witness ==
  /\ nProcess = 2
  /\ acks = 1
  /\ pc = "done"
  /\ Len(cleanups) = 1
  /\ nDispatch >= 1
  /\ reports.n >= 1
  /\ StartAcks = 0

====
